---- MODULE Spec2Model ----
(***************************************************************************)
(* Event RSVP API (server/src/routes/events.js over the Event model).      *)
(* The MongoDB collection of events is the only shared state; every HTTP   *)
(* request is a call whose store operations (findOneAndUpdate, findById,   *)
(* save, deleteOne, create) are the atomic steps that interleave.          *)
(***************************************************************************)
EXTENDS Integers, Sequences, FiniteSets, TLC

\* ---- bounds ----
NumUsers == 2
NumEvents == 1
MaxCap == 2
MaxCalls == 2

Users == 1..NumUsers
EventIds == 1..NumEvents
CallIds == 1..MaxCalls
Titles == {"t1", "t2"}

\* ---- response messages of routes/events.js ----
MsgNotFound == "Event not found"
MsgAlreadyJoined == "You have already RSVPed to this event"
MsgFull == "Event is already full"
MsgConflict == "Unable to RSVP. Please try again."
MsgServerError == "Server error"
MsgAllRequired == "All fields are required"
MsgBadCapacity == "Capacity must be a positive number"
MsgCapacityBelowCount == "Capacity cannot be less than current attendee count"
MsgNotAuthEdit == "Not authorized to edit this event"
MsgNotAuthDelete == "Not authorized to delete this event"
MsgDeleted == "Event deleted"
MsgNone == ""

\* db: the events collection; db0: the collection as it was when the
\* server started (never written); nextId: the next fresh _id; calls: the
\* HTTP requests, in flight or answered; last: the latest response sent.
VARIABLES db, db0, nextId, calls, last
vars == <<db, db0, nextId, calls, last>>

\* ---- the Event document ----
\* attendees is an array of user ids; the code only tests membership and
\* length, so it is kept as the number of occurrences of each user.
NoAttendees == [u \in Users |-> 0]

NoDoc == [exists |-> FALSE, capacity |-> 0, attendees |-> NoAttendees,
          createdBy |-> 0, title |-> ""]

RECURSIVE SumOver(_, _)
SumOver(f, S) == IF S = {} THEN 0
                 ELSE LET x == CHOOSE y \in S : TRUE
                      IN f[x] + SumOver(f, S \ {x})

\* attendees.length / { $size: "$attendees" }
Size(att) == SumOver(att, Users)

\* attendees.some(a => String(a) === String(userId)) / the complement of
\* the filter attendees: { $ne: userId }
Has(att, u) == att[u] > 0

\* { $addToSet: { attendees: userId } }
AddToSet(att, u) == IF att[u] > 0 THEN att ELSE [att EXCEPT ![u] = 1]

\* { $pull: { attendees: userId } }: removes every occurrence
Pull(att, u) == [att EXCEPT ![u] = 0]

\* ---- parseInt(capacity, 10) ----
\* A submitted capacity is a string, kept as a sequence of characters.
\* The empty sequence stands for an absent or empty field (both falsy).
DigitChars == <<"0", "1", "2", "3", "4", "5", "6", "7", "8", "9">>
IsDigit(ch) == \E i \in 1..10 : DigitChars[i] = ch
DigitVal(ch) == (CHOOSE i \in 1..10 : DigitChars[i] = ch) - 1

NaN == [nan |-> TRUE, val |-> 0]
Num(n) == [nan |-> FALSE, val |-> n]

\* The Number value Infinity. It is only ever compared, never computed
\* with, and is kept as the largest integer of TLC, above every
\* other number of the model.
Infinity == 2147483647

\* Number.isInteger
IsInteger(n) == n \in Int /\ n # Infinity /\ n # 0 - Infinity

\* An integer of more decimal digits than the largest finite Number
\* (1.79...e308) has is converted to Infinity. (So are some of as many
\* digits; none of those is among the inputs.)
MaxNumberDigits == 309

\* the least element of a set of integers S, or n when S is empty
LeastOr(S, n) == IF S = {} THEN n ELSE CHOOSE x \in S : \A y \in S : x <= y

\* the position after the longest run of digits of s from position i
DigitsEnd(s, i) == LeastOr({j \in i..Len(s) : ~IsDigit(s[j])}, Len(s) + 1)

\* the position of the first digit other than "0" in s[i .. end - 1]
SkipZeros(s, i, end) == LeastOr({j \in i..(end - 1) : s[j] # "0"}, end)

RECURSIVE ParseDigits(_, _, _)
\* consumes the longest run of leading digits of s from position i
ParseDigits(s, i, acc) ==
  IF i > Len(s) \/ ~IsDigit(s[i]) THEN acc
  ELSE ParseDigits(s, i + 1, 10 * acc + DigitVal(s[i]))

ParseInt(s) ==
  LET neg == Len(s) >= 1 /\ s[1] = "-"
      start == IF Len(s) >= 1 /\ (s[1] = "-" \/ s[1] = "+") THEN 2 ELSE 1
  IN IF start > Len(s) \/ ~IsDigit(s[start]) THEN NaN
     ELSE LET end == DigitsEnd(s, start)
              v == IF end - SkipZeros(s, start, end) > MaxNumberDigits
                   THEN Infinity
                   ELSE ParseDigits(s, start, 0)
          IN Num(IF neg THEN 0 - v ELSE v)

\* !capacity
Falsy(s) == Len(s) = 0

\* the capacities submitted: absent, "a", "-1", "0", "0.9", "1.9", "1a" and
\* the numerals "1" .. MaxCap
CapInputs ==
  {<<>>, <<"a">>, <<"-", "1">>, <<"0">>, <<"0", ".", "9">>,
   <<"1", ".", "9">>, <<"1", "a">>}
    \cup {<<DigitChars[n + 1]>> : n \in 1..MaxCap}

\* the numerals "1" .. MaxCap
CapNumerals == {<<DigitChars[n + 1]>> : n \in 1..MaxCap}

\* a capacity of more digits than a finite Number has
LongNumeral == [i \in 1..(MaxNumberDigits + 1) |-> "9"]

\* title of a PUT or POST body; "" is an absent field
TitleInputs == Titles \cup {""}

\* ---- calls ----
\* op/user/event: the route, req.user.id and req.params.id; pc: the store
\* operation the handler awaits next; doc, dirty: the document the handler
\* holds between two store operations and its modified paths; status, msg:
\* the answer, once sent.
IdleCall == [op |-> "none", pc |-> "idle", user |-> 0, event |-> 0,
             doc |-> NoDoc, dirty |-> {}, status |-> 0, msg |-> MsgNone]

NewCall(op, u, e) == [IdleCall EXCEPT !.op = op, !.user = u, !.event = e]

\* the handler returns: its locals are gone, its answer is kept
Answered(call, s, m) ==
  [call EXCEPT !.pc = "done", !.status = s, !.msg = m, !.doc = NoDoc,
               !.dirty = {}]

\* a response: the call it answers, the status, the message of a
\* { message } body, or the document of a document body with its
\* attendeeCount (-1 when the body carries none)
NoResponse == [call |-> 0, status |-> 0, msg |-> MsgNone, doc |-> NoDoc,
               count |-> 0 - 1]

\* res.status(s).json({ message: m })
Reject(c, s, m) == [NoResponse EXCEPT !.call = c, !.status = s, !.msg = m]

\* res.json(doc) / res.status(201).json(doc)
Reply(c, s, d) == [NoResponse EXCEPT !.call = c, !.status = s, !.doc = d]

\* res.json({ ...updated, attendeeCount: updated.attendees?.length || 0 })
ReplyWithCount(c, d) ==
  [Reply(c, 200, d) EXCEPT !.count = Size(d.attendees)]

\* the response r is sent for the call
Send(call, r) == Answered(call, r.status, r.msg)

\* calls are numbered in order of arrival
CanStart(c) ==
  /\ calls[c].pc = "idle"
  /\ \A d \in CallIds : d < c => calls[d].pc # "idle"

\* ---- POST /:id/rsvp ----
\* variants of the conditional update with one part of it missing or
\* altered: the $expr capacity test absent, $lte in place of $lt, the
\* attendees: { $ne } test absent
RsvpFilterNoCapacity(d, u) == d.exists /\ ~Has(d.attendees, u)

RsvpFilterLte(d, u) ==
  d.exists /\ ~Has(d.attendees, u) /\ Size(d.attendees) <= d.capacity

RsvpFilterNoMember(d, u) == d.exists /\ Size(d.attendees) < d.capacity

\* the filter of the conditional update: _id matches, attendees: { $ne:
\* userId }, $expr: { $lt: [{ $size: "$attendees" }, "$capacity"] }
RsvpFilter(d, u) ==
  /\ d.exists
  /\ ~Has(d.attendees, u)
  /\ Size(d.attendees) < d.capacity

\* variants of the write: $push under the capacity test alone, and an
\* $addToSet that is not conditional on the filter
RsvpApplyPush(d, u) ==
  IF d.exists /\ Size(d.attendees) < d.capacity
  THEN [d EXCEPT !.attendees = [@ EXCEPT ![u] = @ + 1]]
  ELSE d

RsvpApplyAlways(d, u) ==
  IF d.exists THEN [d EXCEPT !.attendees = AddToSet(d.attendees, u)] ELSE d

\* Event.findOneAndUpdate(filter, { $addToSet }, { new: true }): the
\* stored document afterwards; unchanged when the filter matches nothing
RsvpApply(d, u) ==
  IF RsvpFilter(d, u)
  THEN [d EXCEPT !.attendees = AddToSet(d.attendees, u)]
  ELSE d

\* variant without { new: true }: resolves to the document as it was before
\* the update
RsvpUpdatedOld(d, u) == IF RsvpFilter(d, u) THEN d ELSE NoDoc

\* the value findOneAndUpdate resolves to (.lean()): the updated document,
\* or null (NoDoc) when the filter matched nothing
RsvpUpdated(d, u) == IF RsvpFilter(d, u) THEN RsvpApply(d, u) ELSE NoDoc

\* await Event.findOneAndUpdate(...); if (!updated) the handler goes on to
\* the diagnostic read, else res.json({ ...updated, attendeeCount })
RsvpUpdate(c, u, e) ==
  /\ CanStart(c)
  /\ db' = [db EXCEPT ![e] = RsvpApply(db[e], u)]
  /\ LET call == NewCall("rsvp", u, e)
         updated == RsvpUpdated(db[e], u)
     IN IF ~updated.exists
        THEN /\ calls' = [calls EXCEPT ![c] = [call EXCEPT !.pc = "diagnose"]]
             /\ last' = last
        ELSE /\ calls' = [calls EXCEPT ![c] =
                   Send(call, ReplyWithCount(c, updated))]
             /\ last' = ReplyWithCount(c, updated)
  /\ UNCHANGED <<db0, nextId>>

\* variants of the classification: a strict capacity comparison, no
\* already-joined branch, no not-found branch, the last branch answering as
\* the catch block does
ClassifyGt(c, existing, u) ==
  IF ~existing.exists THEN Reject(c, 404, MsgNotFound)
  ELSE IF Has(existing.attendees, u) THEN Reject(c, 400, MsgAlreadyJoined)
  ELSE IF Size(existing.attendees) > existing.capacity
       THEN Reject(c, 400, MsgFull)
  ELSE Reject(c, 400, MsgConflict)

ClassifyNoJoined(c, existing, u) ==
  IF ~existing.exists THEN Reject(c, 404, MsgNotFound)
  ELSE IF Size(existing.attendees) >= existing.capacity
       THEN Reject(c, 400, MsgFull)
  ELSE Reject(c, 400, MsgConflict)

ClassifyNoNotFound(c, existing, u) ==
  IF Has(existing.attendees, u) THEN Reject(c, 400, MsgAlreadyJoined)
  ELSE IF Size(existing.attendees) >= existing.capacity
       THEN Reject(c, 400, MsgFull)
  ELSE Reject(c, 400, MsgConflict)

ClassifyConflictAsFault(c, existing, u) ==
  IF ~existing.exists THEN Reject(c, 404, MsgNotFound)
  ELSE IF Has(existing.attendees, u) THEN Reject(c, 400, MsgAlreadyJoined)
  ELSE IF Size(existing.attendees) >= existing.capacity
       THEN Reject(c, 400, MsgFull)
  ELSE Reject(c, 500, MsgServerError)

\* variant with the capacity test before the already-joined test
ClassifyFullFirst(c, existing, u) ==
  IF ~existing.exists THEN Reject(c, 404, MsgNotFound)
  ELSE IF Size(existing.attendees) >= existing.capacity
       THEN Reject(c, 400, MsgFull)
  ELSE IF Has(existing.attendees, u) THEN Reject(c, 400, MsgAlreadyJoined)
  ELSE Reject(c, 400, MsgConflict)

\* the classification of a failed update from Event.findById(eventId)
Classify(c, existing, u) ==
  IF ~existing.exists THEN Reject(c, 404, MsgNotFound)
  ELSE IF Has(existing.attendees, u) THEN Reject(c, 400, MsgAlreadyJoined)
  ELSE IF Size(existing.attendees) >= existing.capacity
       THEN Reject(c, 400, MsgFull)
  ELSE Reject(c, 400, MsgConflict)

\* variant of the diagnostic read that waits until no other call is between
\* two store operations
RsvpDiagnoseWaits(c) ==
  /\ calls[c].pc = "diagnose"
  /\ \A d \in CallIds \ {c} : calls[d].pc \in {"idle", "done"}
  /\ last' = Classify(c, db[calls[c].event], calls[c].user)
  /\ calls' = [calls EXCEPT ![c] = Send(calls[c], last')]
  /\ UNCHANGED <<db, db0, nextId>>

RsvpDiagnose(c) ==
  /\ calls[c].pc = "diagnose"
  /\ last' = Classify(c, db[calls[c].event], calls[c].user)
  /\ calls' = [calls EXCEPT ![c] = Send(calls[c], last')]
  /\ UNCHANGED <<db, db0, nextId>>

\* ---- POST /:id/unrsvp ----
\* variants of the write: one that adds the user when the user is not among
\* the attendees, and one that empties the array
UnrsvpApplyToggle(d, u) ==
  IF ~d.exists THEN d
  ELSE IF Has(d.attendees, u)
       THEN [d EXCEPT !.attendees = Pull(d.attendees, u)]
  ELSE [d EXCEPT !.attendees = AddToSet(d.attendees, u)]

UnrsvpApplyClear(d, u) ==
  IF d.exists THEN [d EXCEPT !.attendees = NoAttendees] ELSE d

\* Event.findOneAndUpdate({ _id }, { $pull }, { new: true }): the stored
\* document afterwards
UnrsvpApply(d, u) ==
  IF d.exists THEN [d EXCEPT !.attendees = Pull(d.attendees, u)] ELSE d

\* variant of the answer without the test of a null result
UnrsvpResponseNoNullTest(c, updated) == ReplyWithCount(c, updated)

\* if (!updated) 404 else res.json({ ...updated, attendeeCount })
UnrsvpResponse(c, updated) ==
  IF ~updated.exists THEN Reject(c, 404, MsgNotFound)
  ELSE ReplyWithCount(c, updated)

Unrsvp(c, u, e) ==
  /\ CanStart(c)
  /\ db' = [db EXCEPT ![e] = UnrsvpApply(db[e], u)]
  /\ last' = UnrsvpResponse(c, UnrsvpApply(db[e], u))
  /\ calls' = [calls EXCEPT ![c] = Send(NewCall("unrsvp", u, e), last')]
  /\ UNCHANGED <<db0, nextId>>

\* ---- a Join sent again ----
\* the caller of a Join that was answered Conflict sends the same request
\* again: the handler runs anew, with the same user and event
RsvpRetry(c) ==
  /\ calls[c].op = "rsvp" /\ calls[c].pc = "done"
  /\ calls[c].msg = MsgConflict
  /\ LET u == calls[c].user
         e == calls[c].event
         call == NewCall("rsvp", u, e)
         updated == RsvpUpdated(db[e], u)
     IN /\ db' = [db EXCEPT ![e] = RsvpApply(db[e], u)]
        /\ IF ~updated.exists
           THEN /\ calls' = [calls EXCEPT ![c] =
                      [call EXCEPT !.pc = "diagnose"]]
                /\ last' = last
           ELSE /\ calls' = [calls EXCEPT ![c] =
                      Send(call, ReplyWithCount(c, updated))]
                /\ last' = ReplyWithCount(c, updated)
  /\ UNCHANGED <<db0, nextId>>

\* ---- store calls that fail ----
\* an awaited store call of a Join rejects (the store is unavailable):
\* nothing is written and control passes to the catch block
RsvpUpdateFails(c, u, e) ==
  /\ CanStart(c)
  /\ calls' = [calls EXCEPT ![c] = [NewCall("rsvp", u, e) EXCEPT !.pc = "catch"]]
  /\ UNCHANGED <<db, db0, nextId, last>>

RsvpDiagnoseFails(c) ==
  /\ calls[c].pc = "diagnose"
  /\ calls' = [calls EXCEPT ![c].pc = "catch"]
  /\ UNCHANGED <<db, db0, nextId, last>>

\* catch (err) { return res.status(500).json({ message: "Server error" }) }
Catch(c) ==
  /\ calls[c].pc = "catch"
  /\ last' = Reject(c, 500, MsgServerError)
  /\ calls' = [calls EXCEPT ![c] = Send(calls[c], last')]
  /\ UNCHANGED <<db, db0, nextId>>

\* ---- calls that are abandoned ----
\* the handler of a Join or a Leave stops for good (the process dies)
\* before its first store call, or at the await of the diagnostic read of a
\* Join: it runs no further store call and sends no answer
AbandonBefore(c, op, u, e) ==
  /\ CanStart(c)
  /\ calls' = [calls EXCEPT ![c] = [NewCall(op, u, e) EXCEPT !.pc = "abandoned"]]
  /\ UNCHANGED <<db, db0, nextId, last>>

AbandonBetween(c) ==
  /\ calls[c].pc = "diagnose"
  /\ calls' = [calls EXCEPT ![c].pc = "abandoned"]
  /\ UNCHANGED <<db, db0, nextId, last>>

\* ---- POST / (create event) ----
\* the request's validation: the message of the 400 answer, or MsgNone
CreateError(title, capacity) ==
  IF title = "" \/ Falsy(capacity) THEN MsgAllRequired
  ELSE IF ParseInt(capacity).nan \/ ParseInt(capacity).val < 1
       THEN MsgBadCapacity
  ELSE MsgNone

\* variant that does not record the requesting user as the creator
NewEventNoCreator(u, title, capacity) ==
  [exists |-> TRUE, capacity |-> ParseInt(capacity).val,
   attendees |-> NoAttendees, createdBy |-> 1, title |-> title]

\* Event.create({ ..., capacity: parsedCapacity, createdBy: req.user.id,
\* attendees: [] })
NewEvent(u, title, capacity) ==
  [exists |-> TRUE, capacity |-> ParseInt(capacity).val,
   attendees |-> NoAttendees, createdBy |-> u, title |-> title]

Create(c, u, title, capacity) ==
  /\ CanStart(c)
  /\ IF CreateError(title, capacity) # MsgNone
     THEN /\ last' = Reject(c, 400, CreateError(title, capacity))
          /\ calls' = [calls EXCEPT ![c] = Send(NewCall("create", u, 0), last')]
          /\ UNCHANGED <<db, nextId>>
     ELSE /\ nextId \in EventIds
          /\ db' = [db EXCEPT ![nextId] = NewEvent(u, title, capacity)]
          /\ nextId' = nextId + 1
          /\ last' = Reply(c, 201, NewEvent(u, title, capacity))
          /\ calls' = [calls EXCEPT ![c] =
                Send(NewCall("create", u, nextId), last')]
  /\ UNCHANGED db0

\* ---- PUT /:id (update event) ----
\* the capacity check of the handler against the loaded document: the
\* message of the 400 answer, or MsgNone
PutCapacityError(event, capacity) ==
  IF Falsy(capacity) THEN MsgNone
  ELSE IF ParseInt(capacity).nan \/ ParseInt(capacity).val < 1
       THEN MsgBadCapacity
  ELSE IF ParseInt(capacity).val < Size(event.attendees)
       THEN MsgCapacityBelowCount
  ELSE MsgNone

\* the loaded document after the handler's assignments
PutAssign(event, title, capacity) ==
  [event EXCEPT
     !.title = IF title # "" THEN title ELSE @,
     !.capacity = IF ~Falsy(capacity) THEN ParseInt(capacity).val ELSE @]

\* the paths a Mongoose document reports as modified: those assigned a
\* value different from the loaded one
ModifiedPaths(loaded, assigned) ==
  {p \in {"title", "capacity"} : loaded[p] # assigned[p]}

\* variant of the checks without the comparison of createdBy
PutRejectionNoOwner(c, event, u, capacity) ==
  IF ~event.exists THEN Reject(c, 404, MsgNotFound)
  ELSE IF PutCapacityError(event, capacity) # MsgNone
       THEN Reject(c, 400, PutCapacityError(event, capacity))
  ELSE NoResponse

\* the answer of the handler before it saves, or NoResponse when it goes
\* on to event.save()
PutRejection(c, event, u, capacity) ==
  IF ~event.exists THEN Reject(c, 404, MsgNotFound)
  ELSE IF event.createdBy # u THEN Reject(c, 403, MsgNotAuthEdit)
  ELSE IF PutCapacityError(event, capacity) # MsgNone
       THEN Reject(c, 400, PutCapacityError(event, capacity))
  ELSE NoResponse

\* variant that stores the title before it checks the capacity
PutFindTitleFirst(c, u, e, title, capacity) ==
  /\ CanStart(c)
  /\ LET call == NewCall("update", u, e)
         event == db[e]
         r == PutRejection(c, event, u, capacity)
     IN IF r # NoResponse
        THEN /\ last' = r
             /\ calls' = [calls EXCEPT ![c] = Send(call, r)]
             /\ db' = IF r.status = 400
                      THEN [db EXCEPT ![e] = PutAssign(event, title, <<>>)]
                      ELSE db
        ELSE /\ last' = last
             /\ db' = db
             /\ calls' = [calls EXCEPT ![c] =
                   [call EXCEPT !.pc = "save",
                                !.doc = PutAssign(event, title, capacity),
                                !.dirty = ModifiedPaths(event,
                                            PutAssign(event, title, capacity))]]
  /\ UNCHANGED <<db0, nextId>>

\* Event.findById, the creator check and the synchronous assignments up to
\* the await of event.save()
PutFind(c, u, e, title, capacity) ==
  /\ CanStart(c)
  /\ LET call == NewCall("update", u, e)
         event == db[e]
         r == PutRejection(c, event, u, capacity)
     IN IF r # NoResponse
        THEN /\ last' = r
             /\ calls' = [calls EXCEPT ![c] = Send(call, r)]
        ELSE /\ last' = last
             /\ calls' = [calls EXCEPT ![c] =
                   [call EXCEPT !.pc = "save",
                                !.doc = PutAssign(event, title, capacity),
                                !.dirty = ModifiedPaths(event,
                                            PutAssign(event, title, capacity))]]
  /\ UNCHANGED <<db, db0, nextId>>

\* variant that writes the whole document as the handler holds it
SaveApplyWhole(stored, doc, dirty) == doc

\* event.save(): an update of the modified paths of the stored document
SaveApply(stored, doc, dirty) ==
  [stored EXCEPT
     !.title = IF "title" \in dirty THEN doc.title ELSE @,
     !.capacity = IF "capacity" \in dirty THEN doc.capacity ELSE @]

\* await event.save(); res.json(event). Saving a document that was deleted
\* in the meantime rejects and the catch answers 500.
PutSave(c) ==
  /\ calls[c].pc = "save"
  /\ LET call == calls[c]
         e == call.event
     IN IF db[e].exists
        THEN /\ db' = [db EXCEPT ![e] = SaveApply(db[e], call.doc, call.dirty)]
             /\ last' = Reply(c, 200, call.doc)
        ELSE /\ db' = db
             /\ last' = Reject(c, 500, MsgServerError)
  /\ calls' = [calls EXCEPT ![c] = Send(calls[c], last')]
  /\ UNCHANGED <<db0, nextId>>

\* ---- DELETE /:id ----
\* the answer of the handler before it deletes, or NoResponse
DeleteRejection(c, event, u) ==
  IF ~event.exists THEN Reject(c, 404, MsgNotFound)
  ELSE IF event.createdBy # u THEN Reject(c, 403, MsgNotAuthDelete)
  ELSE NoResponse

DeleteFind(c, u, e) ==
  /\ CanStart(c)
  /\ LET call == NewCall("delete", u, e)
         r == DeleteRejection(c, db[e], u)
     IN IF r # NoResponse
        THEN /\ last' = r
             /\ calls' = [calls EXCEPT ![c] = Send(call, r)]
        ELSE /\ last' = last
             /\ calls' = [calls EXCEPT ![c] =
                   [call EXCEPT !.pc = "deleteOne", !.doc = db[e]]]
  /\ UNCHANGED <<db, db0, nextId>>

\* await event.deleteOne(); res.json({ message: "Event deleted" })
DeleteOne(c) ==
  /\ calls[c].pc = "deleteOne"
  /\ db' = [db EXCEPT ![calls[c].event] = NoDoc]
  /\ last' = Reject(c, 200, MsgDeleted)
  /\ calls' = [calls EXCEPT ![c] = Send(calls[c], last')]
  /\ UNCHANGED <<db0, nextId>>

\* ---- POST /api/ai/generate-description ----
\* Strings that are searched or trimmed are kept as sequences of characters.
TextQuota == <<"q", "u", "o", "t", "a">>
TextQuotaExceeded ==
  <<"Q", "u", "o", "t", "a", " ", "e", "x", "c", "e", "e", "d", "e", "d">>
TextOverloaded == <<"o", "v", "e", "r", "l", "o", "a", "d", "e", "d">>

\* String.prototype.includes
Includes(s, t) ==
  \E i \in 1..(Len(s) - Len(t) + 1) : SubSeq(s, i, i + Len(t) - 1) = t

\* String.prototype.trim, of the blank " "
Trim(s) ==
  LET inked == {i \in 1..Len(s) : s[i] # " "}
  IN IF inked = {} THEN <<>>
     ELSE SubSeq(s, CHOOSE i \in inked : \A j \in inked : i <= j,
                    CHOOSE i \in inked : \A j \in inked : i >= j)

ModelsToTry ==
  <<"gemini-flash-latest", "gemini-2.0-flash", "gemini-2.5-flash",
    "gemini-pro-latest">>

MsgTitleRequired == "Title is required"
MsgNotConfigured ==
  "AI service is not configured. Please set GEMINI_API_KEY in environment variables."
MsgQuotaExceeded ==
  "API quota exceeded for all models. Please check your Google Cloud billing or wait for quota reset."
MsgOverloaded ==
  "AI service is temporarily overloaded. Please try again in a moment."
MsgCheckKey ==
  "Failed to generate description. Please check your API key and try again."
MsgAllFailed == "Failed to generate description. All models failed."

\* An error value: data.error of an error response or the exception of a
\* fetch. truthy: it is an object (not undefined or null); hasMessage: it
\* has a string message.
NoError == [truthy |-> FALSE, hasMessage |-> FALSE, message |-> <<>>]
ErrorOf(m) == [truthy |-> TRUE, hasMessage |-> TRUE, message |-> m]
ErrorWithoutMessage == [truthy |-> TRUE, hasMessage |-> FALSE, message |-> <<>>]

\* what a model may answer to the fetch: an OK response with or without a
\* text, an error response with or without data.error, or an exception of
\* fetch or of response.json()
OkOutcomes ==
  {[kind |-> "ok", text |-> t, error |-> NoError] :
     t \in {<<>>, <<" ">>, <<"a">>, <<" ", "a", "b", " ">>}}

ErrorOutcomes ==
  {[kind |-> "error", text |-> <<>>, error |-> e] :
     e \in {NoError, ErrorWithoutMessage, ErrorOf(TextQuota),
            ErrorOf(TextQuotaExceeded), ErrorOf(TextOverloaded),
            ErrorOf(<<"x">> \o TextQuota \o <<" ">> \o TextOverloaded),
            ErrorOf(<<"x">>)}}

ThrowOutcomes ==
  {[kind |-> "throw", text |-> <<>>, error |-> e] :
     e \in {ErrorOf(<<"x">>), ErrorOf(TextOverloaded)}}

FetchOutcomes == OkOutcomes \cup ErrorOutcomes \cup ThrowOutcomes

\* variant of the quota test without its second alternative
IsQuotaErrorLowerCase(e) == e.hasMessage /\ Includes(e.message, TextQuota)

\* error.message?.includes("quota") || error.message?.includes("Quota exceeded")
IsQuotaError(e) ==
  e.hasMessage /\ (Includes(e.message, TextQuota)
                     \/ Includes(e.message, TextQuotaExceeded))

\* the answer after the loop, from lastError
FinalAnswer(lastError) ==
  IF ~lastError.truthy THEN [status |-> 500, msg |-> MsgAllFailed]
  ELSE IF IsQuotaError(lastError)
       THEN [status |-> 429, msg |-> MsgQuotaExceeded]
  ELSE IF lastError.hasMessage /\ Includes(lastError.message, TextOverloaded)
       THEN [status |-> 503, msg |-> MsgOverloaded]
  ELSE [status |-> 500,
        msg |-> IF lastError.hasMessage /\ lastError.message # <<>>
                THEN lastError.message ELSE MsgCheckKey]

\* a call of the route: tried, the models fetched so far with what each one
\* answered; lastError; sent, the responses sent; description, the text
\* sent
GenerateCall(u) ==
  [op |-> "generate", pc |-> "fetch", user |-> u, event |-> 0, doc |-> NoDoc,
   dirty |-> {}, status |-> 0, msg |-> MsgNone, tried |-> <<>>,
   lastError |-> NoError, sent |-> 0, description |-> <<>>]

\* res.status(s).json({ message: m }) / res.json({ description })
GenerateAnswered(call, s, m, d) ==
  [call EXCEPT !.pc = "done", !.status = s, !.msg = m, !.sent = @ + 1,
               !.description = d]

\* the request arrives: the checks of the title and of GEMINI_API_KEY
GenerateStart(c, u, title, hasKey) ==
  /\ CanStart(c)
  /\ IF title = ""
     THEN /\ calls' = [calls EXCEPT ![c] =
                GenerateAnswered(GenerateCall(u), 400, MsgTitleRequired, <<>>)]
          /\ last' = Reject(c, 400, MsgTitleRequired)
     ELSE IF ~hasKey
     THEN /\ calls' = [calls EXCEPT ![c] =
                GenerateAnswered(GenerateCall(u), 500, MsgNotConfigured, <<>>)]
          /\ last' = Reject(c, 500, MsgNotConfigured)
     ELSE /\ calls' = [calls EXCEPT ![c] = GenerateCall(u)]
          /\ last' = last
  /\ UNCHANGED <<db, db0, nextId>>

\* one turn of the loop: the fetch of the next model resolves with the
\* outcome, and the handler runs on to its next await or to its answer
GenerateFetch(c, outcome) ==
  /\ calls[c].op = "generate" /\ calls[c].pc = "fetch"
  /\ LET call == calls[c]
         modelName == ModelsToTry[Len(call.tried) + 1]
         tried == Append(call.tried, [model |-> modelName, outcome |-> outcome])
         lastError == IF outcome.kind = "ok" THEN call.lastError
                      ELSE outcome.error
         stops == outcome.kind = "error" /\ ~IsQuotaError(outcome.error)
         after == [call EXCEPT !.tried = tried, !.lastError = lastError]
     IN IF outcome.kind = "ok" /\ outcome.text # <<>>
        THEN /\ calls' = [calls EXCEPT ![c] =
                   GenerateAnswered(after, 200, MsgNone, Trim(outcome.text))]
             /\ last' = Reject(c, 200, MsgNone)
        ELSE IF stops \/ Len(tried) = Len(ModelsToTry)
        THEN /\ calls' = [calls EXCEPT ![c] =
                   GenerateAnswered(after, FinalAnswer(lastError).status,
                                    FinalAnswer(lastError).msg, <<>>)]
             /\ last' = Reject(c, FinalAnswer(lastError).status,
                               FinalAnswer(lastError).msg)
        ELSE /\ calls' = [calls EXCEPT ![c] = after]
             /\ last' = last
  /\ UNCHANGED <<db, db0, nextId>>

\* ---- the server starts on a collection of earlier events ----
AsAttendees(S) == [u \in Users |-> IF u \in S THEN 1 ELSE 0]

\* events as sequential use of the API leaves them: created by some user
\* with a capacity of at least 1, joined by distinct users up to capacity
StoredEvents ==
  {[exists |-> TRUE, capacity |-> k, attendees |-> AsAttendees(S),
    createdBy |-> 1, title |-> "t1"] :
      <<k, S>> \in {x \in (1..MaxCap) \X SUBSET Users :
                      Cardinality(x[2]) <= x[1]}}

\* the ids 1..n are taken, by events that exist or were deleted
Init ==
  /\ nextId \in 1..(NumEvents + 1)
  /\ db \in [EventIds -> StoredEvents \cup {NoDoc}]
  /\ \A e \in EventIds : e >= nextId => db[e] = NoDoc
  /\ db0 = db
  /\ calls = [c \in CallIds |-> IdleCall]
  /\ last = NoResponse

Next ==
  \/ \E c \in CallIds, u \in Users, t \in TitleInputs, k \in CapInputs :
        Create(c, u, t, k)
  \/ \E c \in CallIds, u \in Users, e \in EventIds,
        t \in TitleInputs, k \in CapInputs : PutFind(c, u, e, t, k)
  \/ \E c \in CallIds : PutSave(c)
  \/ \E c \in CallIds, u \in Users, e \in EventIds : DeleteFind(c, u, e)
  \/ \E c \in CallIds : DeleteOne(c)
  \/ \E c \in CallIds, u \in Users, e \in EventIds : RsvpUpdate(c, u, e)
  \/ \E c \in CallIds : RsvpDiagnose(c)
  \/ \E c \in CallIds, u \in Users, e \in EventIds : Unrsvp(c, u, e)

Spec == Init /\ [][Next]_vars

\* ---- Join and Leave calls alone, on any stored collection ----
NextRsvp ==
  \/ \E c \in CallIds, u \in Users, e \in EventIds : RsvpUpdate(c, u, e)
  \/ \E c \in CallIds : RsvpDiagnose(c)
  \/ \E c \in CallIds, u \in Users, e \in EventIds : Unrsvp(c, u, e)

SpecRsvp == Init /\ [][NextRsvp]_vars

\* ---- one stored event and the calls made on it: Joins, Leaves and
\* updates; it is neither deleted nor is another event created ----
InitOne ==
  /\ Init
  /\ \A e \in EventIds : e > 1 => db[e] = NoDoc

\* the events stored when the server started
Stored == {e \in EventIds : db0[e].exists}

NextUpdate ==
  \/ \E c \in CallIds, u \in Users, e \in Stored,
        t \in TitleInputs, k \in CapInputs : PutFind(c, u, e, t, k)
  \/ \E c \in CallIds : PutSave(c)
  \/ \E c \in CallIds, u \in Users, e \in Stored : RsvpUpdate(c, u, e)
  \/ \E c \in CallIds : RsvpDiagnose(c)
  \/ \E c \in CallIds, u \in Users, e \in Stored : Unrsvp(c, u, e)

SpecUpdate == InitOne /\ [][NextUpdate]_vars

\* ---- Joins and Leaves on ids whose events are created and deleted
\* meanwhile; at most the first id is taken at the start, all events get
\* the same title ----
NextLifecycle ==
  \/ \E c \in CallIds, u \in Users, k \in CapInputs : Create(c, u, "t1", k)
  \/ \E c \in CallIds, u \in Users, e \in EventIds : DeleteFind(c, u, e)
  \/ \E c \in CallIds : DeleteOne(c)
  \/ \E c \in CallIds, u \in Users, e \in EventIds : RsvpUpdate(c, u, e)
  \/ \E c \in CallIds : RsvpDiagnose(c)
  \/ \E c \in CallIds, u \in Users, e \in EventIds : Unrsvp(c, u, e)

SpecLifecycle == InitOne /\ [][NextLifecycle]_vars

\* ---- events created, updated and deleted, by their creators and by
\* others; at most the first id is taken at the start, all events are
\* created with the same title and capacity, updates change the title or
\* set a capacity of 1 .. MaxCap ----
NextOwner ==
  \/ \E c \in CallIds, u \in Users : Create(c, u, "t1", <<"1">>)
  \/ \E c \in CallIds, u \in Users, e \in EventIds,
        t \in {"", "t2"}, k \in CapNumerals \cup {<<>>} :
          PutFind(c, u, e, t, k)
  \/ \E c \in CallIds : PutSave(c)
  \/ \E c \in CallIds, u \in Users, e \in EventIds : DeleteFind(c, u, e)
  \/ \E c \in CallIds : DeleteOne(c)

SpecOwner == InitOne /\ [][NextOwner]_vars

\* ---- Joins on a store whose calls may fail, and Leaves; at most the
\* first id is taken at the start ----
NextFault ==
  \/ \E c \in CallIds, u \in Users, e \in EventIds : RsvpUpdate(c, u, e)
  \/ \E c \in CallIds : RsvpDiagnose(c)
  \/ \E c \in CallIds, u \in Users, e \in EventIds : Unrsvp(c, u, e)
  \/ \E c \in CallIds, u \in Users, e \in EventIds : RsvpUpdateFails(c, u, e)
  \/ \E c \in CallIds : RsvpDiagnoseFails(c)
  \/ \E c \in CallIds : Catch(c)

SpecFault == InitOne /\ [][NextFault]_vars

\* ---- Joins and Leaves that may be abandoned; at most the first id is
\* taken at the start ----
NextAbandon ==
  \/ \E c \in CallIds, u \in Users, e \in EventIds : RsvpUpdate(c, u, e)
  \/ \E c \in CallIds : RsvpDiagnose(c)
  \/ \E c \in CallIds, u \in Users, e \in EventIds : Unrsvp(c, u, e)
  \/ \E c \in CallIds, op \in {"rsvp", "unrsvp"}, u \in Users,
        e \in EventIds : AbandonBefore(c, op, u, e)
  \/ \E c \in CallIds : AbandonBetween(c)

SpecAbandon == InitOne /\ [][NextAbandon]_vars

\* ---- events created and their capacity updated, with any capacity
\* submitted; at most the first id is taken at the start ----
NextCapacity ==
  \/ \E c \in CallIds, u \in Users, t \in TitleInputs,
        k \in CapInputs \cup {LongNumeral} : Create(c, u, t, k)
  \/ \E c \in CallIds, u \in Users, e \in EventIds,
        k \in CapInputs \cup {LongNumeral} : PutFind(c, u, e, "", k)
  \/ \E c \in CallIds : PutSave(c)

SpecCapacity == InitOne /\ [][NextCapacity]_vars

\* ---- events created, updated, joined and left; at most the first id is
\* taken at the start, all events are created with the same title and
\* capacity, updates set another title and a capacity of 1 .. MaxCap ----
NextCreator ==
  \/ \E c \in CallIds, u \in Users : Create(c, u, "t1", <<"1">>)
  \/ \E c \in CallIds, u \in Users, e \in EventIds, k \in CapNumerals :
        PutFind(c, u, e, "t2", k)
  \/ \E c \in CallIds : PutSave(c)
  \/ \E c \in CallIds, u \in Users, e \in EventIds : RsvpUpdate(c, u, e)
  \/ \E c \in CallIds : RsvpDiagnose(c)
  \/ \E c \in CallIds, u \in Users, e \in EventIds : Unrsvp(c, u, e)

SpecCreator == InitOne /\ [][NextCreator]_vars

\* ---- Joins and Leaves, and Joins answered Conflict sent again ----
NextRetry ==
  \/ \E c \in CallIds, u \in Users, e \in EventIds : RsvpUpdate(c, u, e)
  \/ \E c \in CallIds : RsvpDiagnose(c)
  \/ \E c \in CallIds, u \in Users, e \in EventIds : Unrsvp(c, u, e)
  \/ \E c \in CallIds : RsvpRetry(c)

SpecRetry == Init /\ [][NextRetry]_vars

\* ---- Joins, Leaves and updates of one stored event, the updates changing
\* the capacity; a handler that awaits its diagnostic read gets to run it
\* (the event loop resumes it when the store has answered); nothing is
\* assumed of the other handlers, an update may stay before its save for
\* ever ----
NextProgress ==
  \/ \E c \in CallIds, u \in Users, e \in Stored, k \in CapNumerals :
        PutFind(c, u, e, "", k)
  \/ \E c \in CallIds : PutSave(c)
  \/ \E c \in CallIds, u \in Users, e \in Stored : RsvpUpdate(c, u, e)
  \/ \E c \in CallIds : RsvpDiagnose(c)
  \/ \E c \in CallIds, u \in Users, e \in Stored : Unrsvp(c, u, e)

SpecProgress ==
  /\ InitOne
  /\ [][NextProgress]_vars
  /\ \A c \in CallIds : WF_vars(RsvpDiagnose(c))

\* ---- one call of the description generator, on an empty collection ----
InitNone == Init /\ \A e \in EventIds : db[e] = NoDoc

NextGenerate ==
  \/ \E u \in Users, title \in TitleInputs, hasKey \in BOOLEAN :
        GenerateStart(1, u, title, hasKey)
  \/ \E outcome \in FetchOutcomes : GenerateFetch(1, outcome)

SpecGenerate == InitNone /\ [][NextGenerate]_vars

\* ======================= properties =======================
Min(a, b) == IF a < b THEN a ELSE b

Done(c) == calls[c].pc = "done"

IsJoin(c, u, e) ==
  calls[c].op = "rsvp" /\ calls[c].user = u /\ calls[c].event = e

IsLeave(c, u, e) ==
  calls[c].op = "unrsvp" /\ calls[c].user = u /\ calls[c].event = e

\* the Join call c has reported success / the failure with message m
JoinSucceeded(c) ==
  calls[c].op = "rsvp" /\ Done(c) /\ calls[c].status = 200

JoinFailed(c, m) ==
  calls[c].op = "rsvp" /\ Done(c) /\ calls[c].status = 400 /\ calls[c].msg = m

\* C1: under any interleaving of Join and Leave calls, every event has at
\* most as many attendees as its capacity.
C1_AttendeesWithinCapacity ==
  \A e \in EventIds :
    db[e].exists => Size(db[e].attendees) <= db[e].capacity

\* an event filled to capacity by a Join that succeeded while another Join
\* on it was turned away
C1_Witness ==
  \E e \in EventIds, c, d \in CallIds :
    /\ db[e].exists /\ Size(db[e].attendees) = db[e].capacity
    /\ calls[c].event = e /\ JoinSucceeded(c)
    /\ calls[d].event = e /\ JoinFailed(d, MsgFull)

\* C2: under any interleaving of Join and Leave calls, also of several
\* concurrent Joins of one participant, no user occurs more than once among
\* the attendees of an event.
C2_NoDuplicateAttendee ==
  \A e \in EventIds, u \in Users : db[e].attendees[u] <= 1

\* two Joins of the same participant on the same event: the first one
\* succeeded, the second one found the participant a member of an event
\* that has room left and is about to do its diagnostic read
C2_Witness ==
  \E e \in EventIds, u \in Users, c, d \in CallIds :
    /\ c # d /\ IsJoin(c, u, e) /\ IsJoin(d, u, e)
    /\ JoinSucceeded(c) /\ calls[d].pc = "diagnose"
    /\ Size(db[e].attendees) < db[e].capacity

\* the step in which the call c arrives as a Join and does its conditional
\* update, and the step in which it does its diagnostic read
JoinUpdateStep(c) == calls[c].pc = "idle" /\ calls'[c].op = "rsvp"

JoinDiagnoseStep(c) == calls[c].pc = "diagnose" /\ calls'[c].pc = "done"

\* C3: a Join reports success iff, at the instant of its one conditional
\* update, the event exists, the participant is no attendee and there are
\* fewer attendees than the capacity; the participant is added in that very
\* step, a Join whose update did not apply writes nothing and never reports
\* success afterwards.
C3_JoinDecidedAtomically ==
  [][\A c \in CallIds :
       /\ JoinUpdateStep(c) =>
            LET u == calls'[c].user
                e == calls'[c].event
                ok == /\ db[e].exists
                      /\ db[e].attendees[u] = 0
                      /\ Size(db[e].attendees) < db[e].capacity
            IN /\ (calls'[c].pc = "done" /\ calls'[c].status = 200) <=> ok
               /\ ok => db'[e] = [db[e] EXCEPT !.attendees[u] = 1]
               /\ ~ok => db'[e] = db[e] /\ calls'[c].pc = "diagnose"
       /\ JoinDiagnoseStep(c) => calls'[c].status # 200 /\ db' = db
    ]_vars

\* a Join that succeeded between the read and the save of an update of the
\* same event
C3_Witness ==
  \E e \in EventIds, c, d \in CallIds :
    /\ d < c /\ calls[d].op = "update" /\ calls[d].event = e
    /\ calls[d].pc = "save"
    /\ calls[c].event = e /\ JoinSucceeded(c)

\* the Join calls on the event e, and whether they are all the calls made
\* on e: Joins of distinct users who were no attendees when the server
\* started, every one of them answered
JoinsOn(e) == {c \in CallIds : calls[c].op = "rsvp" /\ calls[c].event = e}

Successes(e) == {c \in JoinsOn(e) : calls[c].status = 200}

OnlyJoinsOfNewcomers(e) ==
  /\ db0[e].exists
  /\ \A c \in CallIds : calls[c].event = e => calls[c].op = "rsvp"
  /\ \A c \in JoinsOn(e) : Done(c) /\ ~Has(db0[e].attendees, calls[c].user)
  /\ \A c, d \in JoinsOn(e) : c # d => calls[c].user # calls[d].user

\* C4: R concurrent Joins of R distinct non-members on an event of capacity
\* C with M attendees, and nothing else: min(R, C - M) of them report
\* success and the event ends with M + min(R, C - M) attendees, at most C.
C4_SuccessesAreMinOfRequestsAndRoom ==
  \A e \in EventIds :
    OnlyJoinsOfNewcomers(e) =>
      LET R == Cardinality(JoinsOn(e))
          C == db0[e].capacity
          M == Size(db0[e].attendees)
      IN /\ Cardinality(Successes(e)) = Min(R, C - M)
         /\ Size(db[e].attendees) = M + Min(R, C - M)
         /\ Size(db[e].attendees) <= C

\* two Joins contended for the one free place of an event
C4_Witness ==
  \E e \in EventIds :
    /\ OnlyJoinsOfNewcomers(e)
    /\ Cardinality(JoinsOn(e)) = 2
    /\ db0[e].capacity - Size(db0[e].attendees) = 1
    /\ Cardinality(Successes(e)) = 1

\* C5: N + k concurrent Joins of distinct non-members (k >= 1) on an event
\* with N free places: exactly N report success and each of the other k
\* reports Full or Conflict.
C5_LosersReportFullOrConflict ==
  \A e \in EventIds :
    LET N == db0[e].capacity - Size(db0[e].attendees)
    IN (OnlyJoinsOfNewcomers(e) /\ Cardinality(JoinsOn(e)) > N) =>
         /\ Cardinality(Successes(e)) = N
         /\ \A c \in JoinsOn(e) \ Successes(e) :
              JoinFailed(c, MsgFull) \/ JoinFailed(c, MsgConflict)

\* one place, two Joins: one succeeded and one was turned away
C5_Witness ==
  \E e \in EventIds :
    /\ OnlyJoinsOfNewcomers(e)
    /\ db0[e].capacity - Size(db0[e].attendees) = 1
    /\ \E c, d \in JoinsOn(e) : c \in Successes(e) /\ d \notin Successes(e)

\* C6: capacity 1, no attendees, two concurrent Joins of distinct
\* participants: exactly one of the two is an attendee in the end and the
\* call of the other one reports Full.
C6_OneWinsOtherFull ==
  \A e \in EventIds, c, d \in CallIds :
    ( /\ db0[e].exists /\ db0[e].capacity = 1 /\ Size(db0[e].attendees) = 0
      /\ c # d /\ JoinsOn(e) = {c, d} /\ OnlyJoinsOfNewcomers(e) ) =>
        \/ /\ JoinSucceeded(c) /\ JoinFailed(d, MsgFull)
           /\ Has(db[e].attendees, calls[c].user)
           /\ ~Has(db[e].attendees, calls[d].user)
        \/ /\ JoinSucceeded(d) /\ JoinFailed(c, MsgFull)
           /\ Has(db[e].attendees, calls[d].user)
           /\ ~Has(db[e].attendees, calls[c].user)

\* the first of the two Joins won and the second one has just been answered
C6_Witness ==
  \E e \in EventIds, c, d \in CallIds :
    /\ db0[e].exists /\ db0[e].capacity = 1 /\ Size(db0[e].attendees) = 0
    /\ c < d /\ JoinsOn(e) = {c, d} /\ OnlyJoinsOfNewcomers(e)
    /\ JoinSucceeded(c) /\ JoinFailed(d, MsgFull)
    /\ last.call = d

\* C7: an update of the capacity never leaves the stored capacity below the
\* number of attendees, whatever Joins run between its read and its save.
\* (Stated of the state in which the answer of the update is the latest
\* response: the collection is then as the save left it.)
C7_UpdateKeepsCapacityAboveCount ==
  \A c \in CallIds :
    ( /\ calls[c].op = "update" /\ Done(c) /\ calls[c].status = 200
      /\ last.call = c ) =>
        db[calls[c].event].capacity >= Size(db[calls[c].event].attendees)

\* C8: once a Join of a participant has succeeded, and as long as the
\* participant does not leave, every later Join of that participant on the
\* event reports AlreadyJoined; a Join of an attendee changes nothing.
C8_RepeatedJoinIsAlreadyJoined ==
  /\ [](\A e \in EventIds, u \in Users, c, d \in CallIds :
          ( /\ c < d /\ IsJoin(c, u, e) /\ IsJoin(d, u, e)
            /\ JoinSucceeded(c) /\ Done(d)
            /\ \A x \in CallIds : x > c => ~IsLeave(x, u, e) ) =>
              JoinFailed(d, MsgAlreadyJoined))
  /\ [][\A c \in CallIds :
          (JoinUpdateStep(c)
             /\ Has(db[calls'[c].event].attendees, calls'[c].user)) =>
            db' = db /\ calls'[c].pc = "diagnose"]_vars

\* a second Join of an attendee was answered while the event had room left
C8_Witness ==
  \E e \in EventIds, u \in Users, c, d \in CallIds :
    /\ c < d /\ IsJoin(c, u, e) /\ IsJoin(d, u, e)
    /\ JoinSucceeded(c) /\ JoinFailed(d, MsgAlreadyJoined)
    /\ Size(db[e].attendees) = 1 /\ db[e].capacity > 1

\* C9: a Join of a non-member on an event whose attendees number its
\* capacity, with no other call in progress, reports Full and leaves the
\* event as it was. (The call is the first one the server gets.)
C9_JoinOnFullEventReportsFull ==
  \A e \in EventIds, u \in Users :
    ( /\ db0[e].exists /\ Size(db0[e].attendees) = db0[e].capacity
      /\ ~Has(db0[e].attendees, u)
      /\ IsJoin(1, u, e) /\ Done(1)
      /\ \A c \in CallIds \ {1} : calls[c].pc = "idle" ) =>
        JoinFailed(1, MsgFull) /\ db = db0

\* the first call is the Join of a non-member on a full event and it was
\* answered Full
C9_Witness ==
  \E e \in EventIds, u \in Users :
    /\ db0[e].exists /\ Size(db0[e].attendees) = db0[e].capacity
    /\ ~Has(db0[e].attendees, u)
    /\ IsJoin(1, u, e) /\ JoinFailed(1, MsgFull)
    /\ \A c \in CallIds \ {1} : calls[c].pc = "idle"

LeaveStep(c) == calls[c].pc = "idle" /\ calls'[c].op = "unrsvp"

\* C11: a Leave of a participant who is no attendee of an existing event
\* reports success and changes nothing; so does a Leave that follows a
\* successful Leave of the same participant on the same event directly.
C11_LeaveIsIdempotent ==
  [][\A c \in CallIds :
       LeaveStep(c) =>
         LET u == calls'[c].user
             e == calls'[c].event
         IN /\ (db[e].exists /\ ~Has(db[e].attendees, u)) =>
                 /\ db' = db
                 /\ calls'[c].pc = "done" /\ calls'[c].status = 200
            /\ (c > 1 /\ IsLeave(c - 1, u, e) /\ calls[c - 1].status = 200) =>
                 /\ db' = db
                 /\ calls'[c].pc = "done" /\ calls'[c].status = 200
    ]_vars

\* an attendee left and then left again: both calls reported success and the
\* event is without the participant, its other attendee still there
C11_Witness ==
  \E e \in EventIds, u \in Users :
    /\ Has(db0[e].attendees, u) /\ Size(db0[e].attendees) = 2
    /\ IsLeave(1, u, e) /\ calls[1].status = 200
    /\ IsLeave(2, u, e) /\ calls[2].status = 200
    /\ ~Has(db[e].attendees, u) /\ Size(db[e].attendees) = 1

C13_JoinThenLeaveRestores ==
  \A e \in EventIds, u \in Users :
    ( /\ db0[e].exists /\ ~Has(db0[e].attendees, u)
      /\ IsJoin(1, u, e) /\ JoinSucceeded(1)
      /\ IsLeave(2, u, e) /\ Done(2)
      /\ \A c \in CallIds \ {1, 2} : calls[c].pc = "idle" ) =>
        /\ db[e].attendees = db0[e].attendees
        /\ db = db0
        /\ calls[2].status = 200

\* the Join of a newcomer to an event that had an attendee succeeded and
\* the Leave that followed it was answered with a count of one
C13_Witness ==
  \E e \in EventIds, u \in Users :
    /\ db0[e].exists /\ ~Has(db0[e].attendees, u)
    /\ Size(db0[e].attendees) = 1
    /\ IsJoin(1, u, e) /\ JoinSucceeded(1)
    /\ IsLeave(2, u, e) /\ Done(2) /\ last.call = 2 /\ last.count = 1
    /\ \A c \in CallIds \ {1, 2} : calls[c].pc = "idle"

\* the steps in which the call c arrives as an update and as a delete
PutFindStep(c) == calls[c].pc = "idle" /\ calls'[c].op = "update"

DeleteFindStep(c) == calls[c].pc = "idle" /\ calls'[c].op = "delete"

\* C14: an update or a delete of an existing event asked by a user other
\* than its createdBy is answered 403, not authorized, and changes nothing;
\* every step that changes the capacity or the title of an event, or
\* removes it, is the save or the deleteOne of a call of its creator.
C14_OnlyCreatorChangesOrDeletes ==
  [][/\ \A c \in CallIds :
          /\ ( /\ PutFindStep(c)
               /\ db[calls'[c].event].exists
               /\ db[calls'[c].event].createdBy # calls'[c].user ) =>
                 /\ calls'[c].pc = "done" /\ calls'[c].status = 403
                 /\ calls'[c].msg = MsgNotAuthEdit
                 /\ db' = db
          /\ ( /\ DeleteFindStep(c)
               /\ db[calls'[c].event].exists
               /\ db[calls'[c].event].createdBy # calls'[c].user ) =>
                 /\ calls'[c].pc = "done" /\ calls'[c].status = 403
                 /\ calls'[c].msg = MsgNotAuthDelete
                 /\ db' = db
     /\ \A e \in EventIds :
          ( /\ db[e].exists
            /\ \/ ~db'[e].exists
               \/ db'[e].capacity # db[e].capacity
               \/ db'[e].title # db[e].title ) =>
              \E c \in CallIds :
                /\ calls[c].pc \in {"save", "deleteOne"}
                /\ calls'[c].pc = "done"
                /\ calls[c].event = e
                /\ calls[c].user = db[e].createdBy
    ]_vars

\* an update and a delete of a stored event, both asked by another user
\* than its creator, were answered 403 and the event is as it was
C14_Witness ==
  \E e \in EventIds, c, d \in CallIds :
    /\ db0[e].exists /\ db[e] = db0[e]
    /\ calls[c].op = "update" /\ calls[c].event = e
    /\ calls[c].user # db0[e].createdBy
    /\ calls[c].status = 403 /\ calls[c].msg = MsgNotAuthEdit
    /\ calls[d].op = "delete" /\ calls[d].event = e
    /\ calls[d].user # db0[e].createdBy
    /\ calls[d].status = 403 /\ calls[d].msg = MsgNotAuthDelete

\* no call other than the Join c, waiting for its diagnostic read, has
\* written since the update of c: none has arrived after c, and those that
\* arrived before it are Joins and Leaves (they write on arrival) and
\* updates that were rejected or have not saved yet
NoWriteSinceUpdate(c) ==
  \A d \in CallIds \ {c} :
    /\ d > c => calls[d].pc = "idle"
    /\ d < c => \/ calls[d].op \in {"rsvp", "unrsvp"}
                \/ calls[d].pc = "save"
                \/ calls[d].status \in {400, 403, 404}

\* C15: a Join is answered Conflict only by its diagnostic read, and then
\* exactly when that read finds the event, without the participant among
\* its attendees and with fewer attendees than its capacity; a failing Join
\* with no write of another call between its update and its diagnostic
\* read is never answered Conflict.
C15_ConflictOnlyAfterInterference ==
  [][\A c \in CallIds :
       /\ JoinUpdateStep(c) => calls'[c].msg # MsgConflict
       /\ JoinDiagnoseStep(c) =>
            LET u == calls[c].user
                e == calls[c].event
            IN /\ (calls'[c].status = 400 /\ calls'[c].msg = MsgConflict) <=>
                    /\ db[e].exists
                    /\ ~Has(db[e].attendees, u)
                    /\ Size(db[e].attendees) < db[e].capacity
               /\ NoWriteSinceUpdate(c) => calls'[c].msg # MsgConflict
    ]_vars

\* a Join on a full event was answered Conflict: an update that had read the
\* event before the Join raised the capacity before the diagnostic read
C15_Witness ==
  \E c, d \in CallIds :
    /\ d < c /\ calls[d].op = "update" /\ calls[d].status = 200
    /\ calls[d].event = calls[c].event
    /\ Size(db0[calls[c].event].attendees) = db0[calls[c].event].capacity
    /\ JoinFailed(c, MsgConflict) /\ last.call = c

\* C16: the answer of a successful Join carries the event as the Join's
\* update left it: the participant is among the attendees returned,
\* attendeeCount is the number of the attendees returned and it is at most
\* the capacity returned.
C16_JoinReturnsUpdatedEvent ==
  [][\A c \in CallIds :
       (JoinUpdateStep(c) /\ calls'[c].status = 200) =>
         LET u == calls'[c].user
             e == calls'[c].event
         IN /\ last'.call = c /\ last'.status = 200
            /\ last'.doc = db'[e]
            /\ last'.doc.attendees = [db[e].attendees EXCEPT ![u] = 1]
            /\ Has(last'.doc.attendees, u)
            /\ last'.count = Size(last'.doc.attendees)
            /\ last'.count = Size(db[e].attendees) + 1
            /\ last'.count <= last'.doc.capacity
    ]_vars

\* the latest answer is that of a Join which took the last place of an
\* event that had an attendee: its count is the capacity returned
C16_Witness ==
  \E c \in CallIds, e \in EventIds :
    /\ JoinSucceeded(c) /\ calls[c].event = e /\ last.call = c
    /\ Has(last.doc.attendees, calls[c].user)
    /\ Size(db0[e].attendees) >= 1
    /\ last.count = last.doc.capacity /\ last.count = Size(db[e].attendees)

\* the messages of the four outcomes of a Join that did not succeed
JoinOutcomeMsgs == {MsgNotFound, MsgAlreadyJoined, MsgFull, MsgConflict}

\* C17: NotFound, AlreadyJoined, Full and Conflict are answered as results
\* of the call (404 for NotFound, 400 for the others), each with a message
\* of its own, none of them the 500 "Server error"; a Join is answered 500
\* "Server error" only by the catch block, after one of its store calls
\* has failed.
C17_OutcomesAreNotFaults ==
  /\ [](/\ Cardinality(JoinOutcomeMsgs \cup {MsgServerError}) = 5
        /\ \A c \in CallIds :
             (calls[c].op = "rsvp" /\ Done(c)) =>
               \/ calls[c].status = 200 /\ calls[c].msg = MsgNone
               \/ calls[c].status = 404 /\ calls[c].msg = MsgNotFound
               \/ /\ calls[c].status = 400
                  /\ calls[c].msg \in JoinOutcomeMsgs \ {MsgNotFound}
               \/ calls[c].status = 500 /\ calls[c].msg = MsgServerError)
  /\ [][\A c \in CallIds :
          /\ (JoinDiagnoseStep(c)) =>
               /\ calls'[c].status \in {400, 404}
               /\ calls'[c].msg \in JoinOutcomeMsgs
               /\ last' = Reject(c, calls'[c].status, calls'[c].msg)
          /\ ( /\ calls'[c].op = "rsvp"
               /\ calls[c].pc # "done" /\ calls'[c].pc = "done"
               /\ calls'[c].status = 500 ) => calls[c].pc = "catch"
          /\ ( /\ calls'[c].op = "rsvp"
               /\ calls[c].pc # "catch" /\ calls'[c].pc = "catch" ) =>
               \/ \E u \in Users, e \in EventIds : RsvpUpdateFails(c, u, e)
               \/ RsvpDiagnoseFails(c)
     ]_vars

\* a Join was answered Full; the diagnostic read of another Join on the
\* same full event failed and that Join was answered 500 "Server error"
C17_Witness ==
  \E c, d \in CallIds :
    /\ c # d /\ calls[c].event = calls[d].event
    /\ JoinFailed(c, MsgFull)
    /\ calls[d].op = "rsvp" /\ Done(d)
    /\ calls[d].status = 500 /\ calls[d].msg = MsgServerError
    /\ db[calls[d].event].exists /\ db = db0

\* C18: for a participant u and an event e that stays stored, u becomes an
\* attendee only in the update step of a Join of u on e that is answered
\* 200, and ceases to be one only in the step of a Leave of u on e; a Join
\* of an attendee leaves u an attendee, a Leave of a non-member leaves u
\* absent, and a Join of a non-member that is not answered 200 leaves u
\* absent, in its update and in its diagnostic read.
C18_MembershipTransitions ==
  [][\A e \in EventIds, u \in Users :
       (db[e].exists /\ db'[e].exists) =>
         LET member == Has(db[e].attendees, u)
             member2 == Has(db'[e].attendees, u)
         IN /\ (~member /\ member2) =>
                 \E c \in CallIds :
                   /\ JoinUpdateStep(c) /\ calls'[c].user = u
                   /\ calls'[c].event = e
                   /\ calls'[c].pc = "done" /\ calls'[c].status = 200
            /\ (member /\ ~member2) =>
                 \E c \in CallIds :
                   /\ LeaveStep(c) /\ calls'[c].user = u
                   /\ calls'[c].event = e /\ calls'[c].status = 200
            /\ \A c \in CallIds :
                 /\ ( /\ JoinUpdateStep(c) /\ calls'[c].user = u
                      /\ calls'[c].event = e ) =>
                        /\ member => member2 /\ calls'[c].pc = "diagnose"
                        /\ ~member => (member2 <=> calls'[c].status = 200)
                 /\ ( /\ JoinDiagnoseStep(c) /\ calls[c].user = u
                      /\ calls[c].event = e ) => (member2 <=> member)
                 /\ ( /\ LeaveStep(c) /\ calls'[c].user = u
                      /\ calls'[c].event = e ) => ~member2
    ]_vars

\* a participant joined an event and then left it: absent, member, absent
C18_Witness ==
  \E e \in EventIds, u \in Users, c, d \in CallIds :
    /\ c < d /\ ~Has(db0[e].attendees, u) /\ db0[e].exists
    /\ IsJoin(c, u, e) /\ JoinSucceeded(c)
    /\ IsLeave(d, u, e) /\ calls[d].status = 200 /\ last.call = d
    /\ ~Has(db[e].attendees, u)

\* the event d with the participant u added, and with u removed
WithAttendee(d, u) == [d EXCEPT !.attendees[u] = 1]

WithoutAttendee(d, u) == [d EXCEPT !.attendees[u] = 0]

\* C19: a Join or a Leave, wherever it is abandoned, leaves no partial
\* change. Every step changes at most one event, and then to the whole
\* effect of the one call that arrives in it: the participant added by a
\* Join, removed by a Leave, all else as it was; the diagnostic read and the
\* abandoning change nothing. After a single call, abandoned or not, the
\* collection is as it was at the start or has the whole effect of the
\* call, and it is as at the start if the call was abandoned.
C19_AbandonedCallNeverPartial ==
  /\ [](\A u \in Users, e \in EventIds :
          ( /\ calls[1].user = u /\ calls[1].event = e
            /\ calls[1].op \in {"rsvp", "unrsvp"}
            /\ \A c \in CallIds \ {1} : calls[c].pc = "idle" ) =>
              /\ \/ db = db0
                 \/ /\ calls[1].op = "rsvp" /\ db0[e].exists
                    /\ db = [db0 EXCEPT ![e] = WithAttendee(db0[e], u)]
                 \/ /\ calls[1].op = "unrsvp" /\ db0[e].exists
                    /\ db = [db0 EXCEPT ![e] = WithoutAttendee(db0[e], u)]
              /\ calls[1].pc = "abandoned" => db = db0)
  /\ [][\A c \in CallIds :
          /\ (calls[c].pc = "idle" /\ calls'[c].pc # "idle") =>
               LET u == calls'[c].user
                   e == calls'[c].event
               IN /\ \A f \in EventIds \ {e} : db'[f] = db[f]
                  /\ \/ db'[e] = db[e]
                     \/ /\ calls'[c].op = "rsvp" /\ db[e].exists
                        /\ calls'[c].pc = "done"
                        /\ db'[e] = WithAttendee(db[e], u)
                     \/ /\ calls'[c].op = "unrsvp" /\ db[e].exists
                        /\ calls'[c].pc = "done"
                        /\ db'[e] = WithoutAttendee(db[e], u)
                  /\ calls'[c].pc = "abandoned" => db' = db
          /\ (calls[c].pc = "diagnose" /\ calls'[c].pc # "diagnose") =>
               db' = db
     ]_vars

\* a Join on a full event was abandoned, after a Join that took the last
\* place of the event; the first Join's whole effect is there and nothing
\* else
C19_Witness ==
  \E e \in EventIds, c, d \in CallIds :
    /\ c < d /\ calls[c].event = e /\ JoinSucceeded(c)
    /\ calls[d].op = "rsvp" /\ calls[d].event = e
    /\ calls[d].pc = "abandoned" /\ calls[d].user # calls[c].user
    /\ db0[e].exists
    /\ db[e] = WithAttendee(db0[e], calls[c].user)
    /\ Size(db[e].attendees) = db[e].capacity
    /\ db[e] # db0[e]

\* C20: every event is created without attendees and with a capacity of at
\* least 1, and after any creates and updates, whatever capacities they
\* submit, the capacity of every stored event is an integer of at least 1.
C20_CapacityIsPositiveInteger ==
  \A e \in EventIds :
    db[e].exists =>
      /\ IsInteger(db[e].capacity) /\ db[e].capacity >= 1
      /\ ~db0[e].exists => db[e].attendees = NoAttendees

\* the step in which the call c arrives as a create
CreateStep(c) == calls[c].pc = "idle" /\ calls'[c].op = "create"

\* C21: an event gets its createdBy when it is created, the user of the
\* create call, and no step of an update, a Join or a Leave changes the
\* createdBy of a stored event.
C21_CreatorIsImmutable ==
  [][\A e \in EventIds :
       /\ (db[e].exists /\ db'[e].exists) =>
            db'[e].createdBy = db[e].createdBy
       /\ (~db[e].exists /\ db'[e].exists) =>
            \E c \in CallIds :
              /\ CreateStep(c) /\ calls'[c].event = e
              /\ calls'[c].status = 201
              /\ db'[e].createdBy = calls'[c].user
              /\ last'.doc.createdBy = calls'[c].user
    ]_vars

\* an event created by the second user was then updated by that user: the
\* title is the new one and the creator is the same
C21_Witness ==
  \E e \in EventIds, c, d \in CallIds :
    /\ c < d /\ calls[c].op = "create" /\ calls[c].event = e
    /\ calls[c].status = 201 /\ calls[c].user = 2
    /\ calls[d].op = "update" /\ calls[d].event = e /\ calls[d].status = 200
    /\ db[e].title = "t2" /\ db[e].createdBy = 2

\* the step in which the Join c, answered Conflict, is sent again
RetryStep(c) ==
  /\ calls[c].op = "rsvp" /\ calls[c].pc = "done"
  /\ calls[c].msg = MsgConflict /\ calls'[c] # calls[c]

\* C22: a Join sent again after Conflict never makes the participant an
\* attendee twice and writes nothing unless it succeeds; if no answer was
\* sent since the Conflict (every write of a call comes with its answer,
\* so nothing was written since the diagnostic read), the Join sent again
\* succeeds and the participant is an attendee.
C22_RetryAfterConflict ==
  [][\A c \in CallIds :
       RetryStep(c) =>
         LET u == calls[c].user
             e == calls[c].event
         IN /\ db'[e].attendees[u] <= 1
            /\ \A v \in Users \ {u} : db'[e].attendees[v] = db[e].attendees[v]
            /\ calls'[c].status # 200 => db' = db
            /\ last.call = c =>
                 /\ calls'[c].pc = "done" /\ calls'[c].status = 200
                 /\ db'[e].attendees[u] = 1
                 /\ Size(db'[e].attendees) = Size(db[e].attendees) + 1
                 /\ last'.call = c /\ last'.status = 200
    ]_vars

\* a Join on a full event got Conflict because an attendee left before its
\* diagnostic read; sent again, it succeeded
C22_Witness ==
  \E c, d \in CallIds, e \in EventIds :
    /\ c < d /\ calls[c].event = e /\ JoinSucceeded(c) /\ last.call = c
    /\ ~Has(db0[e].attendees, calls[c].user)
    /\ Size(db0[e].attendees) = db0[e].capacity
    /\ IsLeave(d, calls[d].user, e) /\ calls[d].status = 200
    /\ Has(db0[e].attendees, calls[d].user)
    /\ Has(db[e].attendees, calls[c].user)

\* C23: a Join is answered once, by its conditional update or, when that
\* did not apply, by the one read that follows it; a Leave is answered by
\* its one update; an answered call does nothing more. No call waits for
\* another: a call that arrives can do its first store operation, and a
\* Join can do its diagnostic read, whatever the other calls are at, and
\* every Join that awaits its diagnostic read is answered even if updates
\* stay before their save for ever.
C23_CallsCompleteWithoutWaiting ==
  /\ [][\A c \in CallIds :
          /\ JoinUpdateStep(c) =>
               /\ calls'[c].pc \in {"done", "diagnose"}
               /\ calls'[c].pc = "done" <=> calls'[c].status = 200
               /\ calls'[c].pc = "done" => last'.call = c
               /\ calls'[c].pc = "diagnose" => db' = db /\ last' = last
          /\ calls[c].pc = "diagnose" =>
               \/ calls'[c] = calls[c]
               \/ /\ calls'[c].pc = "done" /\ calls'[c].status \in {400, 404}
                  /\ last'.call = c /\ db' = db
          /\ LeaveStep(c) =>
               /\ calls'[c].pc = "done" /\ calls'[c].status \in {200, 404}
               /\ last'.call = c
          /\ calls[c].pc = "done" => calls'[c] = calls[c]
     ]_vars
  /\ [](\A c \in CallIds :
          /\ calls[c].pc = "diagnose" => ENABLED RsvpDiagnose(c)
          /\ CanStart(c) =>
               \A u \in Users, e \in EventIds :
                 ENABLED RsvpUpdate(c, u, e) /\ ENABLED Unrsvp(c, u, e))
  /\ \A c \in CallIds :
       (calls[c].pc = "diagnose") ~> (calls[c].op = "rsvp" /\ Done(c))

\* a Join on a full event was answered Full after its two store
\* operations while an update that arrived before it is still before its
\* save
C23_Witness ==
  \E c, d \in CallIds :
    /\ d < c /\ calls[d].op = "update" /\ calls[d].pc = "save"
    /\ calls[d].event = calls[c].event
    /\ JoinFailed(c, MsgFull) /\ last.call = c

\* C24: a Join that is answered with a failure writes nothing: neither its
\* conditional update, which did not apply, nor its diagnostic read changes
\* any event; after such a Join alone the collection is as it was at the
\* start.
C24_FailedJoinWritesNothing ==
  /\ [][\A c \in CallIds :
          /\ (JoinUpdateStep(c) /\ calls'[c].status # 200) =>
               db' = db /\ calls'[c].pc = "diagnose"
          /\ JoinDiagnoseStep(c) =>
               /\ db' = db
               /\ calls'[c].msg \in JoinOutcomeMsgs
     ]_vars
  /\ [](( /\ calls[1].op = "rsvp" /\ calls[1].pc \in {"diagnose", "done"}
          /\ calls[1].status # 200
          /\ \A c \in CallIds \ {1} : calls[c].pc = "idle" ) => db = db0)

\* a Join was answered Conflict: the event has lost the attendee who left
\* in between and is otherwise as at the start
C24_Witness ==
  \E c, d \in CallIds, e \in EventIds :
    /\ JoinFailed(c, MsgConflict) /\ calls[c].event = e /\ last.call = c
    /\ IsLeave(d, calls[d].user, e) /\ calls[d].status = 200
    /\ db[e] = WithoutAttendee(db0[e], calls[d].user)
    /\ db[e] # db0[e]

C26_ClassificationOrder ==
  [][\A c \in CallIds :
       JoinDiagnoseStep(c) =>
         LET existing == db[calls[c].event]
             joined == Has(existing.attendees, calls[c].user)
             full == Size(existing.attendees) >= existing.capacity
             answer == <<calls'[c].status, calls'[c].msg>>
         IN /\ ~existing.exists => answer = <<404, MsgNotFound>>
            /\ (existing.exists /\ joined) =>
                 answer = <<400, MsgAlreadyJoined>>
            /\ (existing.exists /\ ~joined /\ full) =>
                 answer = <<400, MsgFull>>
            /\ (existing.exists /\ ~joined /\ ~full) =>
                 answer = <<400, MsgConflict>>
            /\ last' = Reject(c, answer[1], answer[2])
    ]_vars

\* an attendee of an event at capacity joined again and was answered
\* AlreadyJoined
C26_Witness ==
  \E c \in CallIds, e \in EventIds, u \in Users :
    /\ IsJoin(c, u, e) /\ JoinFailed(c, MsgAlreadyJoined) /\ last.call = c
    /\ Has(db[e].attendees, u)
    /\ Size(db[e].attendees) = db[e].capacity
    /\ db[e] = db0[e]

\* the step in which the update c saves
PutSaveStep(c) == calls[c].pc = "save" /\ calls'[c].pc = "done"

\* C27: the save of an update leaves the attendees as they are stored. So
\* right after the save of an update that read the event before, a
\* participant whose Join succeeded since that read, and who did not leave
\* later, is an attendee, and one who left since, and did not join later,
\* is none.
C27_UpdateKeepsJoinsAndLeaves ==
  /\ [][\A c \in CallIds :
          PutSaveStep(c) =>
            db'[calls[c].event].attendees = db[calls[c].event].attendees
     ]_vars
  /\ [](\A c, d \in CallIds :
          ( /\ calls[c].op = "update" /\ Done(c) /\ calls[c].status = 200
            /\ last.call = c
            /\ d > c /\ calls[d].event = calls[c].event ) =>
              LET u == calls[d].user
                  e == calls[d].event
                  later == {x \in CallIds : x > d /\ calls[x].event = e
                                             /\ calls[x].user = u}
              IN /\ (JoinSucceeded(d)
                       /\ \A x \in later : calls[x].op # "unrsvp") =>
                       Has(db[e].attendees, u)
                 /\ (calls[d].op = "unrsvp" /\ Done(d)
                       /\ \A x \in later : ~JoinSucceeded(x)) =>
                       ~Has(db[e].attendees, u))

\* an update that changed title and capacity has just saved; the
\* participant who joined between its read and its save is an attendee
C27_Witness ==
  \E c, d \in CallIds :
    /\ c < d /\ calls[c].op = "update" /\ calls[c].status = 200
    /\ last.call = c /\ calls[d].event = calls[c].event
    /\ JoinSucceeded(d)
    /\ ~Has(db0[calls[d].event].attendees, calls[d].user)
    /\ Has(db[calls[d].event].attendees, calls[d].user)
    /\ db[calls[c].event].title # db0[calls[c].event].title
    /\ db[calls[c].event].capacity # db0[calls[c].event].capacity

\* C28: an update that is answered 400, its capacity being no positive
\* number or below the number of attendees, stores nothing, whatever title
\* it carries: the step that answers it changes no event and the call never
\* saves.
C28_RejectedUpdateStoresNothing ==
  [][\A c \in CallIds :
       /\ (PutFindStep(c) /\ calls'[c].status = 400) =>
            /\ db' = db
            /\ calls'[c].pc = "done"
            /\ calls'[c].msg \in {MsgBadCapacity, MsgCapacityBelowCount}
            /\ last' = Reject(c, 400, calls'[c].msg)
       /\ PutSaveStep(c) => calls[c].status = 0
       /\ (calls[c].op = "update" /\ calls[c].status = 400) =>
            calls'[c] = calls[c]
    ]_vars

\* two updates of the creator were answered 400, one for a capacity that is
\* no positive number and one for a capacity below the number of attendees;
\* the event is as it was
C28_Witness ==
  \E c, d \in CallIds, e \in EventIds :
    /\ calls[c].op = "update" /\ calls[c].event = e
    /\ calls[c].status = 400 /\ calls[c].msg = MsgBadCapacity
    /\ calls[d].op = "update" /\ calls[d].event = e
    /\ calls[d].status = 400 /\ calls[d].msg = MsgCapacityBelowCount
    /\ db0[e].exists /\ db = db0

\* what a model answered makes the handler go on to the next model: a
\* quota error response, an exception, or an OK response without text
MentionsQuota(e) ==
  /\ e.hasMessage
  /\ \/ Includes(e.message, TextQuota)
     \/ Includes(e.message, TextQuotaExceeded)

MentionsOverload(e) == e.hasMessage /\ Includes(e.message, TextOverloaded)

MovesOn(o) ==
  \/ o.kind = "throw"
  \/ o.kind = "ok" /\ o.text = <<>>
  \/ o.kind = "error" /\ MentionsQuota(o.error)

\* the error of the last of the models tried that gave one
LastErrorOf(t) ==
  LET failed == {i \in 1..Len(t) : t[i].outcome.kind # "ok"}
  IN IF failed = {} THEN NoError
     ELSE t[CHOOSE i \in failed : \A j \in failed : i >= j].outcome.error

\* C29: the description generator fetches the four models in their listed
\* order; it goes on to the next model exactly after a quota error
\* response, an exception or an OK response without text, answers 200 with
\* the trimmed text of the first OK response that has one, and tries no
\* model after a non-quota error response. It sends one response, no
\* sooner than it is done: when no model gave a text, 429 if the last error
\* mentions a quota, else 503 if it mentions an overload, else 500.
C29_GenerateTriesModelsInOrder ==
  \A c \in CallIds :
    calls[c].op = "generate" =>
      LET t == calls[c].tried
          n == Len(t)
          e == LastErrorOf(t)
      IN /\ n <= Len(ModelsToTry)
         /\ \A i \in 1..n : t[i].model = ModelsToTry[i]
         /\ \A i \in 1..(n - 1) : MovesOn(t[i].outcome)
         /\ calls[c].sent = IF Done(c) THEN 1 ELSE 0
         /\ calls[c].pc = "fetch" =>
              /\ n < Len(ModelsToTry)
              /\ n >= 1 => MovesOn(t[n].outcome)
         /\ (Done(c) /\ n = 0) => calls[c].status \in {400, 500}
         /\ (Done(c) /\ n >= 1) =>
              IF t[n].outcome.kind = "ok" /\ t[n].outcome.text # <<>>
              THEN /\ calls[c].status = 200
                   /\ calls[c].description = Trim(t[n].outcome.text)
              ELSE /\ MovesOn(t[n].outcome) => n = Len(ModelsToTry)
                   /\ calls[c].status =
                        IF e.truthy /\ MentionsQuota(e) THEN 429
                        ELSE IF e.truthy /\ MentionsOverload(e) THEN 503
                        ELSE 500

\* the first model answered a quota error, the second threw, the third gave
\* an OK response without text and the last one a text, which was sent
\* trimmed
C29_Witness ==
  \E c \in CallIds :
    /\ calls[c].op = "generate" /\ Done(c) /\ Len(calls[c].tried) = 4
    /\ calls[c].tried[1].outcome.kind = "error"
    /\ calls[c].tried[1].outcome.error = ErrorOf(TextQuotaExceeded)
    /\ calls[c].tried[2].outcome.kind = "throw"
    /\ calls[c].tried[3].outcome.kind = "ok"
    /\ calls[c].tried[3].outcome.text = <<>>
    /\ calls[c].tried[4].outcome.text = <<" ", "a", "b", " ">>
    /\ calls[c].tried[4].model = "gemini-pro-latest"
    /\ calls[c].status = 200 /\ calls[c].description = <<"a", "b">>
    /\ calls[c].sent = 1

====
